---- MODULE Spec2Model ----
(***************************************************************************)
(* WikiCrawler (src/martin/src/WikiCrawler.py): a pool of asyncio tasks    *)
(* expands a hyperlink graph from a start page until a link to the target *)
(* page is recorded, then a breadth-first search over the recorded edges   *)
(* gives the path.                                                         *)
(*                                                                         *)
(* asyncio is cooperative: a task runs until it suspends.  The tasks of    *)
(* this program suspend in two places only: inside Queue.get() when the    *)
(* queue is empty, and while a fetch (session.get / response.text) is      *)
(* outstanding.  Queue.put on the unbounded queue and Semaphore.acquire on *)
(* a semaphore with as many permits as workers never suspend.  Each action *)
(* below is one such run of a task from resumption to suspension.          *)
(***************************************************************************)
EXTENDS Integers, Sequences, FiniteSets, TLC

\* ------------------------------------------------------------------ bounds
MaxWorkers == 2        \* concurrent ranges over 1..MaxWorkers
MaxLinks == 3          \* total number of anchors over all pages of a site
MaxKeywords == 1       \* longest keyword list
MaxPrioLinks == 3      \* longest list of links given to _prioritize_by_keyword
MaxPrioKeywords == 2   \* longest keyword list given to _prioritize_by_keyword
MaxPathLinks == 4      \* anchors of a site in the crawls of DeepSpec

\* ------------------------------------------------------------- the site
\* Pages of one site, named by their absolute path.
Nodes == {"/a", "/b", "/c", "/d"}

\* yarl orders URLs of one host by their path; PriorityQueue compares the
\* (priority, url) tuples, so equal priorities are ordered by this rank.
UrlRank == "/a" :> 1 @@ "/b" :> 2 @@ "/c" :> 3 @@ "/d" :> 4

\* The characters of an href and of the visible text of an anchor to it.
HrefChars == "/a" :> <<"/", "a">> @@ "/b" :> <<"/", "b">> @@
             "/c" :> <<"/", "c">> @@ "/d" :> <<"/", "d">> @@
             "/wiki/Chem" :> <<"/", "w", "i", "k", "i", "/", "C", "h", "e", "m">> @@
             "/wiki/Phys" :> <<"/", "w", "i", "k", "i", "/", "P", "h", "y", "s">> @@
             "/wiki/X" :> <<"/", "w", "i", "k", "i", "/", "X">> @@
             "/wiki/Math" :> <<"/", "w", "i", "k", "i", "/", "M", "a", "t", "h">>
AnchorText == "/a" :> <<"A">> @@ "/b" :> <<"B">> @@
              "/c" :> <<"C">> @@ "/d" :> <<"D">>

\* The words keyword lists are made of.
Words == {<<"C">>}

SeqsUpTo(S, n) == UNION {[1..k -> S] : k \in 0..n}

\* The element of a one-element set; With({e(x) : x \in {v}}) is e(v) with
\* v worked out once.
With(S) == CHOOSE x \in S : TRUE

KeywordLists == SeqsUpTo(Words, MaxKeywords)

VARIABLES
  start, target, concurrent, keywords,  \* arguments of WikiCrawler(...)
  page,             \* the site: what a fetch of each node answers
  pc,               \* where __call__ / _first stands
  graph,            \* self._graph, a defaultdict(set): keys are DOMAIN graph
  queue,            \* self._queue, entries in the order get() returns them
  getters,          \* workers suspended in Queue.get(), oldest first
  target_found,     \* self._target_found
  semaphore,        \* free permits of self._semaphore
  session_closed,   \* self._session.closed
  wpc,              \* per worker task: where it is suspended
  current,          \* per worker task: the node it is fetching
  result,           \* the value __call__ returns
  \* history of the run, read by the properties only
  recorded,         \* edges an expansion step has added to the graph
  expanded,         \* nodes whose links _process_links has processed
  fetches,          \* per node: how many fetches of it were started
  late,             \* per worker: its get() returned with the signal set
  take_while_set,   \* some get() call began with the signal set
  put,              \* bag of the entries put on the queue
  taken,            \* bag of the entries get() has returned
  above_min,        \* some get() returned an entry above the least priority
  \* a call of _prioritize_by_keyword on its own
  pl_links, pl_keywords,  \* its arguments
  pl_done,                \* the generator was run to its end
  pl_result               \* the pairs it yielded, in order

world == <<start, target, concurrent, keywords, page>>
pure == <<pl_links, pl_keywords, pl_done, pl_result>>
vars == <<start, target, concurrent, keywords, page, pc, graph, queue,
          getters, target_found, semaphore, session_closed, wpc, current,
          result, recorded, expanded, fetches, late, take_while_set,
          put, taken, above_min,
          pl_links, pl_keywords, pl_done, pl_result>>

NoNode == "-"
Workers == 1..concurrent

\* ------------------------------------------------------------- strings
LowerChar(c) == CASE c = "A" -> "a" [] c = "B" -> "b" [] c = "C" -> "c"
                  [] c = "D" -> "d" [] c = "M" -> "m" [] c = "N" -> "n"
                  [] c = "P" -> "p" [] c = "U" -> "u" [] c = "X" -> "x"
                  [] OTHER -> c

lower(s) == [i \in 1..Len(s) |-> LowerChar(s[i])]

\* Python's `word in s` on strings.
Contains(word, s) ==
  \E i \in 0..(Len(s) - Len(word)) : SubSeq(s, i + 1, i + Len(word)) = word

\* ------------------------------------------------------ _prioritize_by_keyword
\* A link is [text |-> chars, href |-> path].
\* A slip: `word in href`, the href is compared as it is written.
MatchingKeywordsHrefAsIs(link, kws) ==
  {i \in 1..Len(kws) : \/ Contains(lower(kws[i]), lower(link.text))
                       \/ Contains(lower(kws[i]), HrefChars[link.href])}

MatchingKeywords(link, kws) ==
  {i \in 1..Len(kws) : \/ Contains(lower(kws[i]), lower(link.text))
                       \/ Contains(lower(kws[i]), lower(HrefChars[link.href]))}

KeywordIndex(link, kws) ==
  IF MatchingKeywords(link, kws) = {} THEN Len(kws)
  ELSE (CHOOSE i \in MatchingKeywords(link, kws) :
          \A j \in MatchingKeywords(link, kws) : i <= j) - 1

_prioritize_by_keyword(links, kws) ==
  [i \in 1..Len(links) |-> <<KeywordIndex(links[i], kws), links[i].href>>]

\* ------------------------------------------------------------ URL.join
\* Every href is an absolute path ("/wiki/..." in _get_article_links), and
\* every page is on the host of start: joining replaces the path of the base.
join(base, href) == href

\* --------------------------------------------------------------- graph
EmptyGraph == [n \in {} |-> {}]

\* self._graph[k] on a defaultdict(set): the value read.
GraphGet(g, k) == IF k \in DOMAIN g THEN g[k] ELSE {}

\* A slip: the entry of k is made afresh at every access.
GraphTouchFresh(g, k) ==
  [n \in DOMAIN g \cup {k} |-> IF n = k THEN {} ELSE g[n]]

\* self._graph[k] on a defaultdict(set): the key it leaves behind.
GraphTouch(g, k) == IF k \in DOMAIN g THEN g ELSE g @@ (k :> {})

\* A slip: the graph is rebuilt around the entry of the current page.
AddEdgeRebuilt(g, s, t) == s :> (GraphGet(g, s) \cup {t})

\* A slip: self._graph[str(url)].add(str(current)), the edge turned round.
AddEdgeBackwards(g, s, t) == [GraphTouch(g, t) EXCEPT ![t] = @ \cup {s}]

\* self._graph[str(current)].add(str(url))
AddEdge(g, s, t) == [GraphTouch(g, s) EXCEPT ![s] = @ \cup {t}]

Edges(g) == {e \in Nodes \X Nodes : e[1] \in DOMAIN g /\ e[2] \in g[e[1]]}

\* --------------------------------------------------------------- queue
\* Bags of queue entries: entry -> how many times.
EmptyBag == [e \in {} |-> 0]

BagAdd(b, e) == IF e \in DOMAIN b THEN [b EXCEPT ![e] = @ + 1] ELSE b @@ (e :> 1)

EntryLess(x, y) ==
  \/ x[1] < y[1]
  \/ x[1] = y[1] /\ UrlRank[x[2]] < UrlRank[y[2]]

\* A slip: asyncio.Queue for asyncio.PriorityQueue, first in first out.
InsertLast(q, item) == Append(q, item)

RECURSIVE Insert(_, _)
Insert(q, item) ==
  IF q = <<>> THEN <<item>>
  ELSE IF EntryLess(item, Head(q)) THEN <<item>> \o q
  ELSE <<Head(q)>> \o Insert(Tail(q), item)

\* Queue.put_nowait: push on the heap, wake the oldest suspended getter.
QueuePut(st, item) ==
  LET q == Insert(st.queue, item)
  IN IF st.getters = <<>>
     THEN [st EXCEPT !.queue = q, !.put = BagAdd(@, item)]
     ELSE [st EXCEPT !.queue = q, !.put = BagAdd(@, item),
                     !.getters = Tail(@),
                     !.wpc[Head(st.getters)] = "woken"]

\* ------------------------------------------------------- _process_links
\* A slip: the url is compared with something it never equals (a URL with
\* a str), so the target is enqueued like any link.
RECURSIVE ProcessPairsNeverFound(_, _, _)
ProcessPairsNeverFound(pairs, cur, st) ==
  IF pairs = <<>> THEN st
  ELSE LET priority == Head(pairs)[1]
           url == join(cur, Head(pairs)[2])
       IN With({ProcessPairsNeverFound(Tail(pairs), cur,
                                       QueuePut(st1, <<priority, url>>)) :
                st1 \in {[st EXCEPT !.graph = AddEdge(@, cur, url),
                                    !.recorded = @ \cup {<<cur, url>>}]}})

\* A slip: no `break`, the loop goes on after the link to the target.
RECURSIVE ProcessPairsNoBreak(_, _, _)
ProcessPairsNoBreak(pairs, cur, st) ==
  IF pairs = <<>> THEN st
  ELSE LET priority == Head(pairs)[1]
           url == join(cur, Head(pairs)[2])
       IN With({ProcessPairsNoBreak(Tail(pairs), cur,
                  QueuePut([st1 EXCEPT !.target_found = @ \/ url = target],
                           <<priority, url>>)) :
                st1 \in {[st EXCEPT !.graph = AddEdge(@, cur, url),
                                    !.recorded = @ \cup {<<cur, url>>}]}})

RECURSIVE ProcessPairs(_, _, _)
ProcessPairs(pairs, cur, st) ==
  IF pairs = <<>> THEN st
  ELSE LET priority == Head(pairs)[1]
           url == join(cur, Head(pairs)[2])
       IN With({IF url = target
                THEN [st1 EXCEPT !.target_found = TRUE]
                ELSE ProcessPairs(Tail(pairs), cur,
                                  QueuePut(st1, <<priority, url>>)) :
                st1 \in {[st EXCEPT !.graph = AddEdge(@, cur, url),
                                    !.recorded = @ \cup {<<cur, url>>}]}})

\* A slip: the links are processed as the links of the start page.
ProcessLinksOfStart(links, cur, st) ==
  ProcessPairs(_prioritize_by_keyword(links, keywords), start,
               [st EXCEPT !.expanded = @ \cup {cur}])

_process_links(links, cur, st) ==
  ProcessPairs(_prioritize_by_keyword(links, keywords), cur,
               [st EXCEPT !.expanded = @ \cup {cur}])

\* -------------------------------------------------------------- _worker
\* The worker runs on from the top of its loop until it suspends or exits.
RECURSIVE WorkerLoop(_, _)
\* A slip: the dequeued node is fetched whether or not it is in the graph.
WorkerGotNoCheck(w, cur, st) ==
  [st EXCEPT !.wpc[w] = "fetching", !.current[w] = cur,
             !.semaphore = @ - 1,
             !.fetches[cur] = @ + 1, !.late[w] = st.target_found]

\* if str(current) not in self._graph: fetch; else task_done() and loop.
WorkerGot(w, cur, st) ==
  IF cur \notin DOMAIN st.graph
  THEN [st EXCEPT !.wpc[w] = "fetching", !.current[w] = cur,
                  !.semaphore = @ - 1,
                  !.fetches[cur] = @ + 1, !.late[w] = st.target_found]
  ELSE WorkerLoop(w, st)

\* Queue.get: suspend while the queue is empty, else pop the heap.
QueueGet(w, st) ==
  IF st.queue = <<>>
  THEN [st EXCEPT !.getters = Append(@, w), !.wpc[w] = "waiting"]
  ELSE WorkerGot(w, Head(st.queue)[2],
                 [st EXCEPT !.queue = Tail(@),
                            !.taken = BagAdd(@, Head(st.queue)),
                            !.above_min = @ \/ \E i \in DOMAIN st.queue :
                                st.queue[i][1] < Head(st.queue)[1]])

\* A new call of self._queue.get().
BeginGet(w, st) ==
  QueueGet(w, [st EXCEPT !.take_while_set = @ \/ st.target_found])

\* A slip: `while True`, the signal is not looked at.
WorkerLoopNoCheck(w, st0) == With({BeginGet(w, st) : st \in {st0}})

WorkerLoop(w, st0) ==
  With({IF st.target_found THEN [st EXCEPT !.wpc[w] = "done"]
        ELSE BeginGet(w, st) : st \in {st0}})

\* ------------------------------------------------------- shortest_path
Leaf(s) == [tag |-> "str", val |-> s]
List(items) == [tag |-> "list", items |-> items]
None == [tag |-> "none"]

RECURSIVE _flatten(_)
_flatten(x) ==
  IF x.tag = "none" THEN <<>>
  ELSE IF x.tag = "str" THEN <<x.val>>
  ELSE IF x.items = <<>> THEN <<>>
  ELSE _flatten(Head(x.items)) \o _flatten(List(Tail(x.items)))

Perms(S) == {p \in [1..Cardinality(S) -> S] : \A x \in S : \E i \in DOMAIN p : p[i] = x}

\* Iterating a Python set visits its elements in an order the language
\* leaves open: any order of the nodes may be the one a run uses.
IterationOrders == Perms(Nodes)

\* The elements of set s in the iteration order `order` (a permutation of Nodes).
Iterate(s, order) == SelectSeq(order, LAMBDA n : n \in s)

\* A slip: dist[next_] is assigned outside the `if`, so a node found again
\* gets the path of the later find; it is still enqueued once.
RECURSIVE VisitLastWins(_, _, _)
VisitLastWins(nbrs, at, b0) ==
  IF nbrs = <<>> THEN b0
  ELSE LET next_ == Head(nbrs)
       IN With({VisitLastWins(Tail(nbrs), at,
                  [dist |-> (next_ :> List(<<b.dist[at], Leaf(next_)>>))
                              @@ b.dist,
                   q |-> IF next_ \notin DOMAIN b.dist
                         THEN Append(b.q, next_) ELSE b.q]) : b \in {b0}})

RECURSIVE Visit(_, _, _)
\* for next_ in self._graph[at]: ...   b is [dist, q]
Visit(nbrs, at, b0) ==
  IF nbrs = <<>> THEN b0
  ELSE LET next_ == Head(nbrs)
       IN With({IF next_ \notin DOMAIN b.dist
                THEN Visit(Tail(nbrs), at,
                           [dist |-> b.dist @@
                              (next_ :> List(<<b.dist[at], Leaf(next_)>>)),
                            q |-> Append(b.q, next_)])
                ELSE Visit(Tail(nbrs), at, b) : b \in {b0}})

RECURSIVE Bfs(_, _)
\* while len(q): ...   b is [dist, q, graph]
Bfs(b0, order) ==
  With({IF b.q = <<>> THEN b
        ELSE LET at == Head(b.q)
             IN With({Bfs([dist |-> v.dist, q |-> v.q,
                           graph |-> GraphTouch(b.graph, at)], order) :
                      v \in {Visit(Iterate(GraphGet(b.graph, at), order), at,
                                   [dist |-> b.dist, q |-> Tail(b.q)])}}) :
        b \in {b0}})

shortest_path(g, order) ==
  With({[path |-> _flatten(IF target \in DOMAIN b.dist THEN b.dist[target]
                          ELSE None),
         graph |-> b.graph] :
        b \in {Bfs([dist |-> (start :> List(<<Leaf(start)>>)),
                    q |-> <<start>>, graph |-> g], order)}})

\* ---------------------------------------------------------------- Init
LinksOf(anchors, n) ==
  LET mine == SelectSeq(anchors, LAMBDA e : e[1] = n)
  IN [i \in 1..Len(mine) |-> [text |-> AnchorText[mine[i][2]], href |-> mine[i][2]]]

\* The links of a page that _process_links puts on the queue: those before
\* the first link to the target.
RECURSIVE Enqueued(_, _, _)
Enqueued(links, base, t) ==
  IF links = <<>> \/ join(base, Head(links).href) = t THEN {}
  ELSE {join(base, Head(links).href)} \cup Enqueued(Tail(links), base, t)

RECURSIVE Requestable(_, _, _, _)
Requestable(pg, s, t, k) ==
  IF k = 0 THEN {s}
  ELSE LET r == Requestable(pg, s, t, k - 1)
       IN r \cup UNION {Enqueued(pg[n].links, n, t) :
                          n \in {m \in r : pg[m].content_type = "text/html"}}

\* Pages no crawl from s can request are left as empty documents, and a
\* response that is not HTML is never parsed for links.
Canonical(pg, s, t) ==
  /\ \A n \in Nodes : pg[n].content_type # "text/html" => pg[n].links = <<>>
  /\ \A n \in Nodes \ Requestable(pg, s, t, Cardinality(Nodes)) :
        pg[n].content_type = "text/html" /\ pg[n].links = <<>>

\* Anchors of the whole site, page by page in the order of UrlRank.
BySource(anchors) ==
  \A i \in 1..(Len(anchors) - 1) :
     UrlRank[anchors[i][1]] <= UrlRank[anchors[i + 1][1]]

SitesUpTo(s, t, k) ==
  UNION {
    LET empty == {n \in Nodes : LinksOf(anchors, n) = <<>>}
    IN {pg \in {[n \in Nodes |->
                   [content_type |-> IF n \in bad THEN "application/pdf"
                                     ELSE "text/html",
                    links |-> LinksOf(anchors, n)]] : bad \in SUBSET empty} :
          Canonical(pg, s, t)} :
    anchors \in {a \in SeqsUpTo(Nodes \X Nodes, k) : BySource(a)}}

Sites(s, t) == SitesUpTo(s, t, MaxLinks)

\* Node names are interchangeable up to UrlRank and the keywords: the crawl
\* starts at one fixed page and looks for any page of the site.
StartNode == "/b"

\* The sites a crawl from StartNode may meet, by target.
SitesOf == [t \in Nodes |-> Sites(StartNode, t)]

\* Before WikiCrawler(...) is called: no crawler, no site chosen yet.
NoCrawler ==
  /\ pc = "new"
  /\ start = NoNode /\ target = NoNode
  /\ concurrent = 0 /\ keywords = <<>>
  /\ page = [n \in Nodes |-> [content_type |-> "text/html", links |-> <<>>]]
  /\ semaphore = 0
  /\ wpc = <<>> /\ current = <<>> /\ late = <<>>
  /\ graph = EmptyGraph
  /\ queue = <<>>
  /\ getters = <<>>
  /\ target_found = FALSE
  /\ session_closed = FALSE
  /\ result = <<>>
  /\ recorded = {}
  /\ expanded = {}
  /\ fetches = [n \in Nodes |-> 0]
  /\ take_while_set = FALSE
  /\ put = EmptyBag /\ taken = EmptyBag
  /\ above_min = FALSE

\* _prioritize_by_keyword is not called on its own.
NoCall ==
  /\ pl_links = <<>> /\ pl_keywords = <<>>
  /\ pl_done = FALSE /\ pl_result = <<>>

Init == NoCrawler /\ NoCall

\* ------------------------------------------------------------- actions
qhist == <<put, taken, above_min>>
hist == <<recorded, expanded, fetches, late, take_while_set, qhist>>

State == [graph |-> graph, queue |-> queue, getters |-> getters,
          target_found |-> target_found, semaphore |-> semaphore,
          wpc |-> wpc, current |-> current,
          recorded |-> recorded, expanded |-> expanded, fetches |-> fetches,
          late |-> late, take_while_set |-> take_while_set,
          put |-> put, taken |-> taken, above_min |-> above_min]

Install(st0) ==
  \E st \in {st0} :
  /\ graph' = st.graph
  /\ queue' = st.queue
  /\ getters' = st.getters
  /\ target_found' = st.target_found
  /\ semaphore' = st.semaphore
  /\ wpc' = st.wpc
  /\ current' = st.current
  /\ recorded' = st.recorded
  /\ expanded' = st.expanded
  /\ fetches' = st.fetches
  /\ late' = st.late
  /\ take_while_set' = st.take_while_set
  /\ put' = st.put
  /\ taken' = st.taken
  /\ above_min' = st.above_min

\* WikiCrawler(start, target, concurrent=..., keywords=...) on some site.
Construct ==
  /\ pc = "new"
  /\ start' = StartNode
  /\ target' \in Nodes
  /\ page' \in SitesOf[target']
  /\ concurrent' \in 1..MaxWorkers
  /\ keywords' \in KeywordLists
  /\ semaphore' = concurrent'
  /\ wpc' = [w \in 1..concurrent' |-> "unborn"]
  /\ current' = [w \in 1..concurrent' |-> NoNode]
  /\ late' = [w \in 1..concurrent' |-> FALSE]
  /\ graph' = EmptyGraph
  /\ queue' = <<>>
  /\ getters' = <<>>
  /\ target_found' = FALSE
  /\ session_closed' = FALSE
  /\ pc' = "first"
  /\ UNCHANGED <<pure, result, recorded, expanded, fetches, take_while_set,
                 qhist>>

\* _first, the initial response is not HTML: log and return.
FirstFailed ==
  /\ pc = "first"
  /\ page[start].content_type # "text/html"
  /\ pc' = "failed"
  /\ fetches' = [fetches EXCEPT ![start] = @ + 1]
  /\ UNCHANGED <<pure, world, graph, queue, getters, target_found, semaphore,
                 session_closed, wpc, current, result, recorded, expanded,
                 late, take_while_set, qhist>>

\* _first, the initial response is HTML: expand start, create the workers.
FirstExpanded ==
  /\ pc = "first"
  /\ page[start].content_type = "text/html"
  /\ Install([_process_links(page[start].links, start,
                             [State EXCEPT !.fetches[start] = @ + 1])
                EXCEPT !.wpc = [w \in Workers |-> "ready"]])
  /\ pc' = "gather"
  /\ UNCHANGED <<pure, world, session_closed, result>>

\* A created task runs for the first time.
WorkerStart(w) ==
  /\ pc = "gather"
  /\ wpc[w] = "ready"
  /\ Install(WorkerLoop(w, State))
  /\ UNCHANGED <<pure, world, pc, session_closed, result>>

\* A task whose getter future was resolved by a put resumes inside get().
WorkerWoken(w) ==
  /\ pc = "gather"
  /\ wpc[w] = "woken"
  /\ Install(QueueGet(w, State))
  /\ UNCHANGED <<pure, world, pc, session_closed, result>>

\* The response of a worker's fetch arrives and is HTML.
FetchedHTML(w) ==
  /\ pc = "gather"
  /\ wpc[w] = "fetching"
  /\ page[current[w]].content_type = "text/html"
  /\ LET st0 == [State EXCEPT !.semaphore = @ + 1, !.current[w] = NoNode]
         st1 == _process_links(page[current[w]].links, current[w], st0)
     IN Install(WorkerLoop(w, st1))
  /\ UNCHANGED <<pure, world, pc, session_closed, result>>

\* A slip: `return` for `continue`, the worker ends on a page that is not
\* HTML.
FetchedOtherReturns(w) ==
  /\ pc = "gather"
  /\ wpc[w] = "fetching"
  /\ page[current[w]].content_type # "text/html"
  /\ Install([State EXCEPT !.semaphore = @ + 1, !.current[w] = NoNode,
                           !.wpc[w] = "done"])
  /\ UNCHANGED <<pure, world, pc, session_closed, result>>

\* The response of a worker's fetch arrives and is not HTML: continue.
FetchedOther(w) ==
  /\ pc = "gather"
  /\ wpc[w] = "fetching"
  /\ page[current[w]].content_type # "text/html"
  /\ Install(WorkerLoop(w, [State EXCEPT !.semaphore = @ + 1,
                                         !.current[w] = NoNode]))
  /\ UNCHANGED <<pure, world, pc, session_closed, result>>

\* gather() completes, the session is closed, __call__ returns the path.
Gathered ==
  /\ pc = "gather"
  /\ \A w \in Workers : wpc[w] = "done"
  /\ session_closed' = TRUE
  /\ \E order \in IterationOrders :
       \E sp \in {shortest_path(graph, order)} :
         result' = sp.path /\ graph' = sp.graph
  /\ pc' = "returned"
  /\ UNCHANGED <<pure, world, queue, getters, target_found, semaphore, wpc,
                 current, hist>>

\* __call__ after _first returned early.
ReturnFailed ==
  /\ pc = "failed"
  /\ \E order \in IterationOrders :
       \E sp \in {shortest_path(graph, order)} :
         result' = sp.path /\ graph' = sp.graph
  /\ pc' = "returned"
  /\ UNCHANGED <<pure, world, queue, getters, target_found, semaphore,
                 session_closed, wpc, current, hist>>

\* The steps of a call of the crawler.
Run ==
  \/ FirstFailed
  \/ FirstExpanded
  \/ \E w \in Workers : WorkerStart(w)
  \/ \E w \in Workers : WorkerWoken(w)
  \/ \E w \in Workers : FetchedHTML(w)
  \/ \E w \in Workers : FetchedOther(w)
  \/ Gathered
  \/ ReturnFailed

Next == Construct \/ Run

Spec == Init /\ [][Next]_vars

\* The event loop runs a task whenever one is ready to run, and every
\* outstanding fetch is answered.
FairSpec == Spec /\ WF_vars(Run)

\* ------------------------------------------------- crawls of larger sites
\* WikiCrawler(start, target, concurrent=..., keywords=...) on a site of up
\* to MaxPathLinks anchors: its crawls record graphs in which paths of
\* different lengths lead from start to the target.
ConstructDeep ==
  /\ pc = "new"
  /\ start' = StartNode
  /\ target' \in Nodes
  /\ page' \in SitesUpTo(StartNode, target', MaxPathLinks)
  /\ concurrent' \in 1..MaxWorkers
  /\ keywords' \in KeywordLists
  /\ semaphore' = concurrent'
  /\ wpc' = [w \in 1..concurrent' |-> "unborn"]
  /\ current' = [w \in 1..concurrent' |-> NoNode]
  /\ late' = [w \in 1..concurrent' |-> FALSE]
  /\ graph' = EmptyGraph
  /\ queue' = <<>>
  /\ getters' = <<>>
  /\ target_found' = FALSE
  /\ session_closed' = FALSE
  /\ pc' = "first"
  /\ UNCHANGED <<pure, result, recorded, expanded, fetches, take_while_set,
                 qhist>>

DeepNext == ConstructDeep \/ Run

DeepSpec == Init /\ [][DeepNext]_vars

\* ------------------------------ _prioritize_by_keyword called on its own
crawler == <<world, pc, graph, queue, getters, target_found, semaphore,
             session_closed, wpc, current, result, hist>>

\* Anchors as _get_article_links hands them over: visible text and href.
PrioLinks ==
  {[text |-> <<"C", "h", "e", "m", "i", "s", "t", "r", "y">>,
    href |-> "/wiki/Chem"],
   [text |-> <<"P", "h", "y", "s", "i", "c", "s", " ", "t", "o", "d", "a", "y">>,
    href |-> "/wiki/Phys"],
   [text |-> <<"U", "n", "r", "e", "l", "a", "t", "e", "d">>,
    href |-> "/wiki/X"],
   [text |-> <<"N", "u", "m", "b", "e", "r", "s">>,
    href |-> "/wiki/Math"]}

\* Keywords: two lower-case words, an upper-case letter, the empty string.
PrioWords == {<<"p", "h", "y", "s", "i", "c", "s">>, <<"m", "a", "t", "h">>,
              <<"X">>, <<>>}

PrioInit ==
  /\ NoCrawler
  /\ pl_links \in SeqsUpTo(PrioLinks, MaxPrioLinks)
  /\ pl_keywords \in SeqsUpTo(PrioWords, MaxPrioKeywords)
  /\ pl_done = FALSE
  /\ pl_result = <<>>

\* list(_prioritize_by_keyword(links, keywords))
Prioritize ==
  /\ ~pl_done
  /\ pl_result' = _prioritize_by_keyword(pl_links, pl_keywords)
  /\ pl_done' = TRUE
  /\ UNCHANGED <<pl_links, pl_keywords, crawler>>

PrioNext == Prioritize

PrioSpec == PrioInit /\ [][PrioNext]_vars

\* ------------------------------------------------- the real link graph
IsHTML(n) == page[n].content_type = "text/html"

Hrefs(n) == {join(n, page[n].links[i].href) : i \in 1..Len(page[n].links)}

LinkEdges == {e \in Nodes \X Nodes : IsHTML(e[1]) /\ e[2] \in Hrefs(e[1])}

Succ(E, S) == {e[2] : e \in {x \in E : x[1] \in S}}

RECURSIVE Closure(_, _, _)
Closure(E, S, k) == IF k = 0 THEN S ELSE Closure(E, S \cup Succ(E, S), k - 1)

\* Nodes that one or more edges of E lead to from s.
ReachableFrom(E, s) == Closure(E, Succ(E, {s}), Cardinality(Nodes))

\* Nodes that exactly k edges of E lead to from s.
RECURSIVE Walk(_, _, _)
Walk(E, s, k) == IF k = 0 THEN {s} ELSE Succ(E, Walk(E, s, k - 1))

Distances(E, s, t) == {k \in 0..Cardinality(Nodes) : t \in Walk(E, s, k)}

Distance(E, s, t) ==
  CHOOSE k \in Distances(E, s, t) : \A j \in Distances(E, s, t) : k <= j

Returned == pc = "returned"

\* The crawler is constructed and __call__ has not started to fetch.
Called == pc = "first"

\* ------------------------------------------------------------------ C1
\* C1: if start is fetchable and the target cannot be reached from start
\* over the links of the site, findPath eventually returns, and returns the
\* empty sequence.
C1_ReturnsEmptyWhenUnreachable ==
  (Called /\ IsHTML(start) /\ target # start
     /\ target \notin ReachableFrom(LinkEdges, start))
    ~> (Returned /\ result = <<>>)

\* ------------------------------------------------------------------ C2
\* C2: once the termination signal is set, every worker leaves its loop,
\* gather() completes and findPath returns.
C2_SignalLeadsToReturn ==
  target_found ~> (Returned /\ \A w \in Workers : wpc[w] = "done")

\* ------------------------------------------------------------------ C3
StartLinksTarget == pc # "new" /\ IsHTML(start) /\ target \in Hrefs(start)

\* C3 as stated: whenever start is fetchable and links to the target,
\* findPath returns exactly [start, target].
C3_DirectLinkAsStated ==
  (Returned /\ StartLinksTarget) => result = <<start, target>>

\* C3 as amended: whenever start is fetchable and links to the target,
\* findPath returns, and returns [start, target] if the two differ and
\* [start] if they are the same page.
C3_DirectLink ==
  (Called /\ StartLinksTarget)
    ~> (Returned /\ result = IF start = target THEN <<start>>
                              ELSE <<start, target>>)

C3_Witness ==
  /\ Returned /\ StartLinksTarget /\ start # target
  /\ Len(page[start].links) >= 3
  /\ join(start, page[start].links[2].href) = target
  /\ concurrent = MaxWorkers /\ keywords # <<>>
  /\ result = <<start, target>>

\* ------------------------------------------------------------------ C4
AllFetchable == \A n \in Nodes : IsHTML(n)

HrefSeq(n) == [i \in 1..Len(page[n].links) |-> join(n, page[n].links[i].href)]

\* start -> [a, b], a -> [target], b -> [], four different pages.
Scenario(a, b) ==
  /\ Cardinality({start, a, b, target}) = 4
  /\ AllFetchable
  /\ HrefSeq(start) = <<a, b>>
  /\ HrefSeq(a) = <<target>>
  /\ HrefSeq(b) = <<>>

\* C4: with one worker and every page fetchable, the crawl of
\* start -> [a, b], a -> [target], b -> [] returns [start, a, target]; and
\* whenever the target can be reached from start over the links of the site
\* (over no link at all when the target is start), the crawl ends and
\* findPath returns a path that begins with start and ends with the target.
C4_OneWorkerFindsTarget ==
  (Called /\ concurrent = 1 /\ AllFetchable
     /\ Distances(LinkEdges, start, target) # {})
    ~> /\ Returned
       /\ result # <<>> /\ Head(result) = start
       /\ result[Len(result)] = target
       /\ \A a \in Nodes, b \in Nodes :
            Scenario(a, b) => result = <<start, a, target>>

\* The part of it that holds: the same when one or more links lead from
\* start to the target.
FindsTargetOverLinks ==
  (Called /\ concurrent = 1 /\ AllFetchable
     /\ target \in ReachableFrom(LinkEdges, start))
    ~> /\ Returned
       /\ result # <<>> /\ Head(result) = start
       /\ result[Len(result)] = target
       /\ \A a \in Nodes, b \in Nodes :
            Scenario(a, b) => result = <<start, a, target>>

\* b was dequeued and fetched before a.
ScenarioRun ==
  \E a \in Nodes, b \in Nodes :
    /\ concurrent = 1 /\ Scenario(a, b)
    /\ fetches[b] = 1 /\ fetches[a] = 1
    /\ Returned /\ result = <<start, a, target>>

\* ------------------------------------------------------------------ C5
\* C5: whenever an edge into the target is in the graph the signal is set,
\* the signal once set stays set, and no call of get() begins while the
\* signal is set.
C5_SignalWithTargetEdge ==
  /\ [](((\E e \in Edges(graph) : e[2] = target) => target_found)
          /\ ~take_while_set)
  /\ [][target_found => target_found']_vars

\* A worker went round its loop after the signal was set and stopped.
C5_Witness ==
  /\ target_found
  /\ \E e \in Edges(graph) : e[2] = target /\ e[1] # start
  /\ \E w \in Workers : wpc[w] = "done"
  /\ \E w \in Workers : wpc[w] = "fetching"

\* ------------------------------------------------------------------ C6
\* C6: no node is dequeued and fetched after the signal was set, so every
\* edge recorded after the signal comes from an expansion whose node was
\* dequeued before it.
C6_NoExpansionAfterSignal ==
  \A w \in Workers : wpc[w] = "fetching" => ~late[w]

\* ------------------------------------------------------------------ C7
IsPath(E, path) ==
  /\ path # <<>>
  /\ \A i \in 1..(Len(path) - 1) : <<path[i], path[i + 1]>> \in E

\* C7: shortest_path returns the empty sequence if the target cannot be
\* reached from start over the recorded edges, and else a path of recorded
\* edges from start to the target with as few edges as any.
C7_ShortestRecordedPath ==
  Returned =>
    IF Distances(Edges(graph), start, target) = {}
    THEN result = <<>>
    ELSE /\ IsPath(Edges(graph), result)
         /\ Head(result) = start
         /\ result[Len(result)] = target
         /\ Len(result) - 1 = Distance(Edges(graph), start, target)

\* A crawl recorded two paths of different length to the target,
\* start -> c -> target and start -> a -> c -> target, and the shorter one
\* was returned.
C7_Witness ==
  /\ Returned /\ target_found
  /\ \E a \in Nodes, c \in Nodes :
       /\ Cardinality({start, a, c, target}) = 4
       /\ expanded = {start, a, c}
       /\ Edges(graph) = {<<start, a>>, <<start, c>>, <<a, c>>, <<c, target>>}
       /\ result = <<start, c, target>>

\* ------------------------------------------------------------------ C8
\* C8: if the fetch of start is not HTML, no worker is started, nothing is
\* recorded or enqueued, the signal stays unset and findPath returns the
\* empty sequence.
C8_StartNotFetchable ==
  (pc # "new" /\ ~IsHTML(start)) =>
    /\ \A w \in Workers : wpc[w] = "unborn"
    /\ Edges(graph) = {} /\ queue = <<>> /\ ~target_found
    /\ Returned => result = <<>>

\* ------------------------------------------------------------------ C9
\* The links of page n up to and including the first link to the target.
RECURSIVE UpToTarget(_, _)
UpToTarget(n, links) ==
  IF links = <<>> THEN {}
  ELSE IF join(n, Head(links).href) = target THEN {target}
  ELSE {join(n, Head(links).href)} \cup UpToTarget(n, Tail(links))

\* C9: the graph holds every edge an expansion step has recorded, and for
\* every page whose expansion ran an edge to each of its links up to and
\* including the first link to the target.
C9_NoLostEdge ==
  /\ recorded \subseteq Edges(graph)
  /\ \A n \in expanded :
       \A d \in UpToTarget(n, page[n].links) : <<n, d>> \in Edges(graph)

\* Two workers fetched and expanded the same page.
C9_Witness ==
  \E n \in expanded :
    /\ fetches[n] = 2
    /\ Cardinality(UpToTarget(n, page[n].links)) = 1
    /\ Cardinality(recorded) = 2

\* ----------------------------------------------------------------- C10
\* C10: no step removes an edge from the graph.
C10_EdgesOnlyGrow == [][Edges(graph) \subseteq Edges(graph')]_vars

\* A worker added edges to a graph that held the edges of start.
C10_Witness ==
  /\ Cardinality(expanded) = 3
  /\ Cardinality(Edges(graph)) = 3

\* ----------------------------------------------------------------- C11
CasePairs == {<<"A", "a">>, <<"B", "b">>, <<"C", "c">>, <<"D", "d">>,
              <<"M", "m">>, <<"N", "n">>, <<"P", "p">>, <<"U", "u">>,
              <<"X", "x">>}

SameLetter(x, y) == x = y \/ <<x, y>> \in CasePairs \/ <<y, x>> \in CasePairs

\* word occurs in s, letter case aside.
Occurs(word, s) ==
  \E i \in 1..(Len(s) - Len(word) + 1) :
    \A j \in 1..Len(word) : SameLetter(word[j], s[i + j - 1])

OccursIn(word, link) ==
  Occurs(word, link.text) \/ Occurs(word, HrefChars[link.href])

Priorities(pairs) == [i \in 1..Len(pairs) |-> pairs[i][1]]

ExampleLinks ==
  <<[text |-> <<"C", "h", "e", "m", "i", "s", "t", "r", "y">>,
     href |-> "/wiki/Chem"],
    [text |-> <<"P", "h", "y", "s", "i", "c", "s", " ", "t", "o", "d", "a", "y">>,
     href |-> "/wiki/Phys"],
    [text |-> <<"U", "n", "r", "e", "l", "a", "t", "e", "d">>,
     href |-> "/wiki/X"]>>

ExampleKeywords == <<<<"p", "h", "y", "s", "i", "c", "s">>, <<"m", "a", "t", "h">>>>

\* C11: _prioritize_by_keyword yields one (priority, href) pair per link, in
\* the order of the links; the priority is the index of the first keyword
\* that occurs, letter case aside, in the text or the href of the link, and
\* the number of keywords if none occurs; so it lies in 0..len(keywords), is
\* 0 for every link when there are no keywords, and [physics, math] on
\* [Chemistry, Physics today, Unrelated] gives [2, 0, 2].
C11_Prioritize ==
  pl_done =>
    /\ Len(pl_result) = Len(pl_links)
    /\ \A i \in 1..Len(pl_links) :
         LET p == pl_result[i][1]
         IN /\ pl_result[i][2] = pl_links[i].href
            /\ p \in 0..Len(pl_keywords)
            /\ p < Len(pl_keywords) => OccursIn(pl_keywords[p + 1], pl_links[i])
            /\ \A j \in 1..p : ~OccursIn(pl_keywords[j], pl_links[i])
            /\ pl_keywords = <<>> => p = 0
    /\ (pl_links = ExampleLinks /\ pl_keywords = ExampleKeywords)
         => Priorities(pl_result) = <<2, 0, 2>>

C11_Witness ==
  /\ pl_done
  /\ pl_links = ExampleLinks /\ pl_keywords = ExampleKeywords
  /\ pl_result = <<<<2, "/wiki/Chem">>, <<0, "/wiki/Phys">>, <<2, "/wiki/X">>>>

\* ----------------------------------------------------------------- C12
\* C12: in every interleaving every node is fetched at most once, also when
\* it was enqueued several times and two workers dequeue it before either
\* has recorded an edge for it.
C12_FetchedAtMostOnce == \A n \in Nodes : fetches[n] <= 1

\* ----------------------------------------------------------------- C13
\* C13: once the expansion of a node has completed, no later dequeue of the
\* node starts a fetch of it: the dequeue is skipped; also for a node whose
\* page has no links.
C13_ExpandedIsSkipped ==
  [][\A n \in expanded : fetches'[n] = fetches[n]]_vars

\* ----------------------------------------------------------------- C14
\* The index of the first keyword that occurs in the link, else their number.
FirstKeyword(link, kws) ==
  IF \E i \in 1..Len(kws) : OccursIn(kws[i], link)
  THEN (CHOOSE i \in 1..Len(kws) :
          /\ OccursIn(kws[i], link)
          /\ \A j \in 1..(i - 1) : ~OccursIn(kws[j], link)) - 1
  ELSE Len(kws)

\* The index of the first link of page n that resolves to the target, or 0.
FirstTarget(n) ==
  IF \E i \in 1..Len(page[n].links) : HrefSeq(n)[i] = target
  THEN CHOOSE i \in 1..Len(page[n].links) :
         /\ HrefSeq(n)[i] = target
         /\ \A j \in 1..(i - 1) : HrefSeq(n)[j] # target
  ELSE 0

BagOfSeq(q) ==
  [e \in {q[i] : i \in DOMAIN q} |-> Cardinality({i \in DOMAIN q : q[i] = e})]

BagCount(b, e) == IF e \in DOMAIN b THEN b[e] ELSE 0

BagPlus(x, y) ==
  [e \in DOMAIN x \cup DOMAIN y |-> BagCount(x, e) + BagCount(y, e)]

\* What one expansion of page n does to the graph, the queue and the signal.
ExpansionOf(n) ==
  LET k == Len(page[n].links)
      j == FirstTarget(n)
      entry(i) == <<FirstKeyword(page[n].links[i], keywords), HrefSeq(n)[i]>>
  IN /\ Edges(graph') = Edges(graph) \cup
          {<<n, HrefSeq(n)[i]>> : i \in 1..(IF j = 0 THEN k ELSE j)}
     /\ put' = BagPlus(put, BagOfSeq([i \in 1..(IF j = 0 THEN k ELSE j - 1)
                                       |-> entry(i)]))
     /\ \A e \in DOMAIN put' : e[2] = target => BagCount(put, e) = put'[e]
     /\ target_found' = (target_found \/ j # 0)

\* C14: one expansion of a page with links l1..lk records the edge to every
\* link and enqueues every link once with its priority if none resolves to
\* the target; if lj is the first that does, it records the edges to l1..lj,
\* enqueues l1..l(j-1), sets the signal, does not enqueue the target, and
\* neither records nor enqueues any of l(j+1)..lk.
C14_OneExpansion ==
  [][/\ FirstExpanded => ExpansionOf(start)
     /\ \A w \in Workers : FetchedHTML(w) => ExpansionOf(current[w])]_vars

\* A worker expanded a page whose first link is the target and whose second
\* link is another page: the second link was neither recorded nor enqueued.
C14_Witness ==
  \E n \in expanded \ {start} :
    /\ Len(page[n].links) = 2
    /\ HrefSeq(n)[1] = target /\ HrefSeq(n)[2] # target
    /\ target_found
    /\ <<n, target>> \in Edges(graph)
    /\ <<n, HrefSeq(n)[2]>> \notin Edges(graph)
    /\ \A e \in DOMAIN put : e[2] # HrefSeq(n)[2]

\* ----------------------------------------------------------------- C15
Suffixes(q) == {SubSeq(q, i, Len(q)) : i \in 1..(Len(q) + 1)}

\* C15: when the fetch of a worker answers with something that is not HTML,
\* the step records no edge, enqueues nothing and leaves the signal as it
\* is; the worker goes round its loop: it ends if the signal is set, and
\* else takes the next entry from the queue, or waits for one, and fetches
\* again only a node it has taken from the queue since.
C15_NotFetchableSkipped ==
  [][\A w \in Workers : FetchedOther(w) =>
       /\ graph' = graph /\ recorded' = recorded /\ expanded' = expanded
       /\ put' = put
       /\ target_found' = target_found
       /\ queue' \in Suffixes(queue)
       /\ IF target_found
          THEN wpc'[w] = "done" /\ queue' = queue /\ taken' = taken
          ELSE /\ wpc'[w] \in {"waiting", "fetching"}
               /\ wpc'[w] = "waiting" => queue' = <<>>
               /\ queue # <<>> =>
                    BagCount(taken', Head(queue)) > BagCount(taken, Head(queue))
               /\ wpc'[w] = "fetching" =>
                    /\ taken' # taken
                    /\ \E e \in DOMAIN taken' : e[2] = current'[w]]_vars

\* The only worker fetched a page that is not HTML and is at its next fetch.
C15_Witness ==
  /\ concurrent = 1
  /\ \E n \in Nodes \ {start} :
       /\ ~IsHTML(n) /\ fetches[n] = 1
       /\ n \notin DOMAIN graph
       /\ wpc[1] = "fetching" /\ current[1] # n

\* ----------------------------------------------------------------- C16
\* C16: every get() returns an entry of the queue whose priority is the
\* least of the priorities in the queue at that moment and removes that one
\* entry; no entry is lost or doubled: the entries taken and the entries
\* still in the queue are together the entries put.
C16_TakesLeast ==
  /\ ~above_min
  /\ BagPlus(taken, BagOfSeq(queue)) = put

\* An entry of priority 0 was taken while an entry of priority 1 whose URL
\* sorts before it stays in the queue.
C16_Witness ==
  \E e \in DOMAIN taken :
    /\ e[1] = 0
    /\ \E i \in DOMAIN queue :
         queue[i][1] = 1 /\ UrlRank[queue[i][2]] < UrlRank[e[2]]

\* ----------------------------------------------------------------- C17
\* C17: start is fetched and expanded once, before any worker runs: while
\* the expansion of start has not recorded its edges and enqueued its links
\* no worker exists, nothing was taken from the queue and no other page was
\* fetched; afterwards start was fetched exactly once, and no worker ever
\* fetches start, also when another page links back to it.
C17_StartExpandedOnce ==
  /\ pc \in {"new", "first"} =>
       /\ \A w \in DOMAIN wpc : wpc[w] = "unborn"
       /\ taken = EmptyBag
       /\ \A n \in Nodes : fetches[n] = 0
  /\ (\E w \in DOMAIN wpc : wpc[w] # "unborn") =>
       /\ start \in expanded
       /\ \A d \in UpToTarget(start, page[start].links) :
            <<start, d>> \in Edges(graph)
       /\ \A i \in 1..Len(page[start].links) :
            (FirstTarget(start) = 0 \/ i < FirstTarget(start)) =>
              \E e \in DOMAIN put : e[2] = HrefSeq(start)[i]
  /\ pc \notin {"new", "first"} =>
       /\ fetches[start] = 1
       /\ IsHTML(start) => start \in expanded
       /\ \A w \in Workers : current[w] # start

\* A page linked back to start: start was taken from the queue and skipped.
C17_Witness ==
  /\ \E e \in DOMAIN taken : e[2] = start
  /\ \E n \in expanded \ {start} : <<n, start>> \in Edges(graph)
  /\ fetches[start] = 1
  /\ Returned

\* ----------------------------------------------------------------- C18
\* C18: every node in the queue and every node a worker is fetching can be
\* reached from start over the edges in the graph; so whenever the signal
\* is set the target can be reached from start in the graph, and a call
\* that returns after the signal was set does not return the empty sequence.
C18_FrontierReachable ==
  \A reached \in {ReachableFrom(Edges(graph), start)} :
    /\ \A i \in DOMAIN queue : queue[i][2] \in reached
    /\ \A w \in DOMAIN wpc : wpc[w] = "fetching" => current[w] \in reached
    /\ target_found => target \in reached
    /\ (Returned /\ target_found) => result # <<>>

\* With the signal set a worker fetches a node that start does not link to.
C18_Witness ==
  /\ target_found
  /\ \E w \in Workers :
       /\ wpc[w] = "fetching"
       /\ <<start, current[w]>> \notin Edges(graph)
       /\ current[w] # target

\* ----------------------------------------------------------------- C19
\* C19: the graph is a subgraph of the link graph of the site: every edge
\* s -> t of it is a link to t on the page s, which was fetched and is HTML,
\* and s is start or was taken from the queue; so every path findPath
\* returns is a path of links from start to the target.
C19_RecordedEdgesAreLinks ==
  /\ Edges(graph) \subseteq LinkEdges
  /\ \A e \in Edges(graph) :
       /\ fetches[e[1]] >= 1
       /\ e[1] = start \/ \E x \in DOMAIN taken : x[2] = e[1]
  /\ (Returned /\ result # <<>>) =>
       /\ IsPath(LinkEdges, result)
       /\ Head(result) = start
       /\ result[Len(result)] = target

\* A path of three links was returned.
C19_Witness ==
  /\ Returned /\ Len(result) = 4
  /\ Cardinality({result[i] : i \in 1..4}) = 4
  /\ \A i \in 1..3 : <<result[i], result[i + 1]>> \in LinkEdges

====
